---- MODULE Spec2Model ----
(***************************************************************************)
(* A model of the browser client of the scraping service:                  *)
(*   - ScrapingForm.handleSubmit      (components/ScrapingForm.js)         *)
(*   - Dashboard.handleScrape, pollJobStatus, deleteJob, viewJob           *)
(*                                    (pages/Dashboard.js)                 *)
(*   - ExportButtons.handleExport     (components/ExportButtons.js)        *)
(*   - ResultsTable.tableData         (pages/Dashboard.js, 495-606)        *)
(* Every await of the source splits a handler into the step that sends the *)
(* request and the step that runs its continuation; the steps of different *)
(* handlers interleave as the single event loop allows.  The remote        *)
(* service is not part of the sources: it is modelled from the endpoint    *)
(* table of the specification (srv).                                       *)
(***************************************************************************)
EXTENDS Integers, Sequences, FiniteSets, TLC

VARIABLES
  formData,     \* ScrapingForm: useState({url, use_selenium, selectors})
  alert,        \* the window.alert raised by the latest step ("" if none)
  scrapeJobs,   \* Dashboard: useState([])   the job collection
  currentJob,   \* Dashboard: useState(null) <<>> is null, <<job>> a job
  loading,      \* Dashboard: useState(false)
  loops,        \* the timers of every pollJobStatus call, in call order
  fetches,      \* getScrapeResult requests awaiting their continuation
  createReq,    \* createScrapeJob request awaiting its continuation
  deleteReqs,   \* deleteScrapeJob requests awaiting their continuation
  toast,        \* the toast raised by the latest step ("" if none)
  srv,          \* the remote service: status of each job id
  exporting,    \* ExportButtons: useState(null)  "" is null
  exJobId,      \* ExportButtons: the jobId prop
  transfers,    \* export requests awaiting their continuation
  download,     \* the download triggered by the latest step ("" if none)
  data,         \* ResultsTable: the data prop  <<>> is null, <<mapping>>
  tableData,    \* ResultsTable: the rows computed by the latest render
  shown,        \* ResultsTable: what the latest render returned ("" if none)
  cap           \* the horizon explored: [jobs, ticks]

vars == << formData, alert, scrapeJobs, currentJob, loading, loops, fetches,
           createReq, deleteReqs, toast, srv, exporting, exJobId, transfers,
           download, data, tableData, shown, cap >>

dashVars == << scrapeJobs, currentJob, loading, loops, fetches, createReq,
             deleteReqs, srv >>
exportVars == << exporting, exJobId, transfers, download >>
tableVars == << data, tableData, shown >>

-----------------------------------------------------------------------------
(* Bounds of the exploration.                                              *)

MaxJobs == 2            \* jobs the remote service creates
MaxTicks == 2           \* interval firings per loop explored by Spec
MaxInFlight == 2        \* status requests awaiting a response
MaxDeletes == 1         \* delete requests awaiting a response
TimedJobs == 1          \* jobs created under SpecTimed
MaxSelectors == 3       \* rows of the selector list
MaxTransfers == 3       \* export requests awaiting a response
MaxLen == 2             \* elements of a sequence of a result mapping

(* Program constants.                                                      *)

PollIntervalMs == 2000      \* setInterval(..., 2000)
PollTimeoutMs == 300000     \* setTimeout(..., 300000)
RecentShown == 5            \* scrapeJobs.slice(0, 5)

\* SpecTimed follows one loop past its ceiling.
TimedTicks == (PollTimeoutMs \div PollIntervalMs) + 1

JobIds == 1..(MaxJobs + 1)

Min(a, b) == IF a < b THEN a ELSE b

-----------------------------------------------------------------------------
(* The job entity (ScrapeJob) as the client holds it.                      *)

Job(id, status, rd, err) ==
  [id |-> id, status |-> status, result_data |-> rd, error_message |-> err]

NoJob == Job(0, "", <<>>, "")

\* The scalar values of a result: JavaScript strings and numbers.
Str(text) == [type |-> "string", text |-> text]
Num(text) == [type |-> "number", text |-> text]

\* A result mapping is the sequence of its entries in insertion order; an
\* entry holds a sequence of scalars (arr) or one scalar (vals[1]).
HelloResult == << [key |-> "title", arr |-> TRUE, vals |-> << Str("Hello") >>] >>

Terminal(status) == status \in {"completed", "failed"}

-----------------------------------------------------------------------------
(* The remote service.                                                     *)

Live(id) == srv[id] \in {"pending", "running", "completed", "failed"}

Created == {id \in JobIds : srv[id] # "absent"}

\* Identifiers are assigned in sequence and never reused.
NextId == Cardinality(Created) + 1

\* GET /api/scrape/{id}
ServerJob(id) ==
  Job(id, srv[id],
      IF srv[id] = "completed" THEN << HelloResult >> ELSE <<>>,
      IF srv[id] = "failed" THEN "selector error" ELSE "")

Ok(job) == [ok |-> TRUE, data |-> job]
Err == [ok |-> FALSE, data |-> NoJob]

\* What a status request sent now can come back with: the entity, unless
\* the id is unknown to the service; any request can fail in transit.
StatusResponses(id) ==
  IF Live(id) THEN {Ok(ServerJob(id)), Err} ELSE {Err}

ServerProgress(id) ==
  /\ srv[id] \in {"pending", "running"}
  /\ \E s \in (IF srv[id] = "pending" THEN {"running"}
                                      ELSE {"completed", "failed"}) :
       srv' = [srv EXCEPT ![id] = s]
  /\ toast' = "" /\ alert' = ""
  /\ UNCHANGED << formData, scrapeJobs, currentJob, loading, loops, fetches,
                  createReq, deleteReqs, exportVars, tableVars, cap >>

-----------------------------------------------------------------------------
(* ScrapingForm.                                                           *)

Urls == {"", "https://example.com"}
FieldNames == {"", "title", "links"}
SelectorTexts == {"", "h1, h2, h3", "a[href]"}

InitialForm ==
  [url |-> "", use_selenium |-> FALSE,
   selectors |-> << [field |-> "title", selector |-> "h1, h2, h3"],
                    [field |-> "links", selector |-> "a[href]"] >>]

\* Mutant of SetKey: a field name that repeats keeps its first selector.
SetKeyFirstWins(obj, k, v) ==
  IF \E i \in 1..Len(obj) : obj[i].field = k
    THEN obj
    ELSE Append(obj, [field |-> k, selector |-> v])

\* selectorsObj[field] = selector on an object kept as its entries in
\* insertion order: an existing key keeps its place and takes the new value.
SetKey(obj, k, v) ==
  IF \E i \in 1..Len(obj) : obj[i].field = k
    THEN [i \in 1..Len(obj) |->
            IF obj[i].field = k THEN [field |-> k, selector |-> v] ELSE obj[i]]
    ELSE Append(obj, [field |-> k, selector |-> v])

RECURSIVE SelectorsObj(_, _)
SelectorsObj(sels, obj) ==
  IF sels = <<>> THEN obj
  ELSE LET sel == Head(sels)
       IN SelectorsObj(Tail(sels),
                       IF sel.field # "" /\ sel.selector # ""
                         THEN SetKey(obj, sel.field, sel.selector)
                         ELSE obj)

\* Mutant of SubmitAlert: the selectors are checked before the url.
SubmitAlertSelectorsFirst(fd) ==
  IF Len(fd.selectors) = 0 THEN "Please add at least one selector"
  ELSE IF Len(SelectorsObj(fd.selectors, <<>>)) = 0
    THEN "Please add valid selectors"
  ELSE IF fd.url = "" THEN "Please enter a URL"
  ELSE ""

\* Mutant of SubmitAlert: the check of the selectors object is missing.
SubmitAlertNoValidCheck(fd) ==
  IF fd.url = "" THEN "Please enter a URL"
  ELSE IF Len(fd.selectors) = 0 THEN "Please add at least one selector"
  ELSE ""

\* The outcome of handleSubmit's checks: the alert it raises, "" if none.
SubmitAlert(fd) ==
  IF fd.url = "" THEN "Please enter a URL"
  ELSE IF Len(fd.selectors) = 0 THEN "Please add at least one selector"
  ELSE IF Len(SelectorsObj(fd.selectors, <<>>)) = 0
    THEN "Please add valid selectors"
  ELSE ""

ScrapeData(fd) ==
  [url |-> fd.url, use_selenium |-> fd.use_selenium,
   selectors |-> SelectorsObj(fd.selectors, <<>>)]

\* handleChange on the url input.
HandleChangeUrl ==
  /\ \E v \in Urls \ {"", formData.url} :
       formData' = [formData EXCEPT !.url = v]
  /\ toast' = "" /\ alert' = ""
  /\ UNCHANGED << scrapeJobs, currentJob, loading, loops, fetches, createReq,
                  deleteReqs, srv, exportVars, tableVars, cap >>

\* handleChange on the url input and on the use_selenium checkbox.
HandleChange ==
  /\ \/ \E v \in Urls \ {formData.url} :
          formData' = [formData EXCEPT !.url = v]
     \/ formData' = [formData EXCEPT !.use_selenium = ~@]
  /\ toast' = "" /\ alert' = ""
  /\ UNCHANGED << dashVars, exportVars, tableVars, cap >>

\* handleSelectorChange(index, field, value); index counts from 0.
HandleSelectorChange(index, field, value) ==
  /\ formData' =
       [formData EXCEPT !.selectors =
          [i \in 1..Len(@) |->
             IF i - 1 = index
               THEN IF field = "field" THEN [@[i] EXCEPT !.field = value]
                                       ELSE [@[i] EXCEPT !.selector = value]
               ELSE @[i]]]
  /\ formData' # formData
  /\ toast' = "" /\ alert' = ""
  /\ UNCHANGED << dashVars, exportVars, tableVars, cap >>

\* addSelector
AddSelector ==
  /\ Len(formData.selectors) < MaxSelectors
  /\ formData' = [formData EXCEPT !.selectors =
                    Append(@, [field |-> "", selector |-> ""])]
  /\ toast' = "" /\ alert' = ""
  /\ UNCHANGED << dashVars, exportVars, tableVars, cap >>

\* removeSelector(index); the button is disabled when one row is left.
RemoveSelector(index) ==
  /\ Len(formData.selectors) # 1
  /\ formData' = [formData EXCEPT !.selectors =
                    SubSeq(@, 1, index) \o SubSeq(@, index + 2, Len(@))]
  /\ toast' = "" /\ alert' = ""
  /\ UNCHANGED << dashVars, exportVars, tableVars, cap >>

\* handleSubmit, and handleScrape up to its await.  The submit button is
\* disabled while loading.
HandleSubmit ==
  /\ ~loading
  /\ alert' = SubmitAlert(formData)
  /\ IF SubmitAlert(formData) = ""
       THEN /\ loading' = TRUE
            /\ createReq' = << ScrapeData(formData) >>
       ELSE UNCHANGED << loading, createReq >>
  /\ toast' = ""
  /\ UNCHANGED << formData, scrapeJobs, currentJob, loops, fetches,
                  deleteReqs, srv, exportVars, tableVars, cap >>

-----------------------------------------------------------------------------
(* Dashboard.                                                              *)

\* Mutant of PollJobStatus: the loop is registered twice.
PollJobStatusTwice(ls, jobId) ==
  ls \o << [id |-> jobId, ticks |-> 0, active |-> TRUE, timer |-> TRUE],
           [id |-> jobId, ticks |-> 0, active |-> TRUE, timer |-> TRUE] >>

\* pollJobStatus(jobId): a new interval timer and a new timeout timer.
PollJobStatus(ls, jobId) ==
  Append(ls, [id |-> jobId, ticks |-> 0, active |-> TRUE, timer |-> TRUE])

\* Mutant of ClearInterval: the handle passed is not the loop's timer.
ClearIntervalWrongHandle(ls, l) == ls

\* clearInterval(pollInterval)
ClearInterval(ls, l) == [ls EXCEPT ![l].active = FALSE]

\* Mutant of Prepend: the new job is put behind the earlier ones.
PrependAtEnd(job, prev) == Append(prev, job)

\* prev => [job, ...prev]
Prepend(job, prev) == << job >> \o prev

\* Mutant of MapJob: only the status of the entry is refreshed.
MapJobStatusOnly(prev, jobId, job) ==
  [k \in 1..Len(prev) |->
     IF prev[k].id = jobId THEN [prev[k] EXCEPT !.status = job.status]
                           ELSE prev[k]]

\* Mutant of MapJob: the test on the id is missing.
MapJobEveryEntry(prev, jobId, job) == [k \in 1..Len(prev) |-> job]

\* Mutant of MapJob: a job without an entry is added to the collection.
MapJobUpsert(prev, jobId, job) ==
  IF \E k \in 1..Len(prev) : prev[k].id = jobId
    THEN [k \in 1..Len(prev) |-> IF prev[k].id = jobId THEN job ELSE prev[k]]
    ELSE Append(prev, job)

\* prev => prev.map(j => j.id === jobId ? job : j)
MapJob(prev, jobId, job) ==
  [k \in 1..Len(prev) |-> IF prev[k].id = jobId THEN job ELSE prev[k]]

\* prev => prev.filter(job => job.id !== jobId)
FilterJob(prev, jobId) == SelectSeq(prev, LAMBDA j : j.id # jobId)

RemoveAt(s, i) == SubSeq(s, 1, i - 1) \o SubSeq(s, i + 1, Len(s))

\* handleScrape after its await, the request having succeeded.
CreateOk ==
  /\ createReq # <<>>
  /\ NextId <= cap.jobs
  /\ LET job == Job(NextId, "pending", <<>>, "")
     IN /\ srv' = [srv EXCEPT ![NextId] = "pending"]
        /\ scrapeJobs' = Prepend(job, scrapeJobs)
        /\ currentJob' = << job >>
        /\ loops' = PollJobStatus(loops, job.id)
  /\ toast' = "Scraping job started!"
  /\ loading' = FALSE
  /\ createReq' = <<>>
  /\ alert' = ""
  /\ UNCHANGED << formData, fetches, deleteReqs, exportVars, tableVars, cap >>

\* Mutant of CreateFail: the failure also drops the selection.
CreateFailClearsSelection ==
  /\ createReq # <<>>
  /\ currentJob' = <<>>
  /\ toast' = "Failed to start scraping job"
  /\ loading' = FALSE
  /\ createReq' = <<>>
  /\ alert' = ""
  /\ UNCHANGED << formData, scrapeJobs, loops, fetches, deleteReqs, srv,
                  exportVars, tableVars, cap >>

\* handleScrape after its await, the request having failed.
CreateFail ==
  /\ createReq # <<>>
  /\ toast' = "Failed to start scraping job"
  /\ loading' = FALSE
  /\ createReq' = <<>>
  /\ alert' = ""
  /\ UNCHANGED << formData, scrapeJobs, currentJob, loops, fetches,
                  deleteReqs, srv, exportVars, tableVars, cap >>

\* The interval timer of loop l fires: the callback runs up to its await.
\* Time does not pass the due time of a pending timeout timer.
Tick(l) ==
  /\ loops[l].active
  /\ loops[l].ticks < cap.ticks
  /\ Len(fetches) < MaxInFlight
  /\ loops[l].timer =>
       (loops[l].ticks + 1) * PollIntervalMs <= PollTimeoutMs
  /\ loops' = [loops EXCEPT ![l].ticks = @ + 1]
  /\ \E r \in StatusResponses(loops[l].id) :
       fetches' = Append(fetches, [loop |-> l, resp |-> r])
  /\ toast' = "" /\ alert' = ""
  /\ UNCHANGED << formData, scrapeJobs, currentJob, loading, createReq,
                  deleteReqs, srv, exportVars, tableVars, cap >>

\* The callback after its await, the request having succeeded.
PollOk(i) ==
  LET l == fetches[i].loop
      jobId == loops[l].id
      job == fetches[i].resp.data
  IN /\ fetches[i].resp.ok
     /\ scrapeJobs' = MapJob(scrapeJobs, jobId, job)
     /\ IF Terminal(job.status)
          THEN /\ loops' = ClearInterval(loops, l)
               /\ IF job.status = "completed"
                    THEN /\ currentJob' = << job >>
                         /\ toast' = "Scraping completed!"
                    ELSE /\ currentJob' = currentJob
                         /\ toast' = "Scraping failed: " \o job.error_message
          ELSE /\ UNCHANGED << loops, currentJob >>
               /\ toast' = ""
     /\ fetches' = RemoveAt(fetches, i)
     /\ alert' = ""
     /\ UNCHANGED << formData, loading, createReq, deleteReqs, srv,
                     exportVars, tableVars, cap >>

\* Mutant of PollFail: the interval is left running after a failure.
PollFailKeepsInterval(i) ==
  /\ ~fetches[i].resp.ok
  /\ toast' = "Error checking job status"
  /\ fetches' = RemoveAt(fetches, i)
  /\ alert' = ""
  /\ UNCHANGED << formData, scrapeJobs, currentJob, loading, loops,
                  createReq, deleteReqs, srv, exportVars, tableVars, cap >>

\* The callback after its await, the request having failed.
PollFail(i) ==
  LET l == fetches[i].loop
  IN /\ ~fetches[i].resp.ok
     /\ loops' = ClearInterval(loops, l)
     /\ toast' = "Error checking job status"
     /\ fetches' = RemoveAt(fetches, i)
     /\ alert' = ""
     /\ UNCHANGED << formData, scrapeJobs, currentJob, loading, createReq,
                     deleteReqs, srv, exportVars, tableVars, cap >>

\* Mutant of Timeout: the timer fires and leaves the interval running.
TimeoutKeepsInterval(l) ==
  /\ loops[l].timer
  /\ loops[l].active =>
       (loops[l].ticks + 1) * PollIntervalMs >= PollTimeoutMs
  /\ loops' = [loops EXCEPT ![l].timer = FALSE]
  /\ toast' = "" /\ alert' = ""
  /\ UNCHANGED << formData, scrapeJobs, currentJob, loading, fetches,
                  createReq, deleteReqs, srv, exportVars, tableVars, cap >>

\* Mutant of Timeout: a job not seen to end is marked as failed.
TimeoutMarksFailed(l) ==
  /\ loops[l].timer
  /\ loops[l].active =>
       (loops[l].ticks + 1) * PollIntervalMs >= PollTimeoutMs
  /\ loops' = [ClearInterval(loops, l) EXCEPT ![l].timer = FALSE]
  /\ scrapeJobs' =
       [k \in 1..Len(scrapeJobs) |->
          IF scrapeJobs[k].id = loops[l].id /\ ~Terminal(scrapeJobs[k].status)
            THEN [scrapeJobs[k] EXCEPT !.status = "failed"]
            ELSE scrapeJobs[k]]
  /\ toast' = "" /\ alert' = ""
  /\ UNCHANGED << formData, currentJob, loading, fetches, createReq,
                  deleteReqs, srv, exportVars, tableVars, cap >>

\* The timeout timer of loop l fires, no earlier than every firing of the
\* interval timer that is due before it.
Timeout(l) ==
  /\ loops[l].timer
  /\ loops[l].active =>
       (loops[l].ticks + 1) * PollIntervalMs >= PollTimeoutMs
  /\ loops' = [ClearInterval(loops, l) EXCEPT ![l].timer = FALSE]
  /\ toast' = "" /\ alert' = ""
  /\ UNCHANGED << formData, scrapeJobs, currentJob, loading, fetches,
                  createReq, deleteReqs, srv, exportVars, tableVars, cap >>

\* job?.id of a selection (0 for undefined).
IdOf(selection) == IF selection = <<>> THEN 0 ELSE selection[1].id

\* currentJob?.id as a handler's closure sees it.
CurId == IdOf(currentJob)

\* viewJob(job) on a row of the list.
ViewJob(k) ==
  /\ currentJob' = << scrapeJobs[k] >>
  /\ toast' = "" /\ alert' = ""
  /\ UNCHANGED << formData, scrapeJobs, loading, loops, fetches, createReq,
                  deleteReqs, srv, exportVars, tableVars, cap >>

\* deleteJob(job.id) on a row of the list, up to its await.  The closure
\* keeps the currentJob of the render the click happened in.
DeleteJob(k) ==
  /\ Cardinality(deleteReqs) < MaxDeletes
  /\ deleteReqs' = deleteReqs \cup {[id |-> scrapeJobs[k].id, cur |-> CurId]}
  /\ toast' = "" /\ alert' = ""
  /\ UNCHANGED << formData, scrapeJobs, currentJob, loading, loops, fetches,
                  createReq, srv, exportVars, tableVars, cap >>

\* deleteJob after its await, the request having succeeded.
DeleteOk(r) ==
  /\ Live(r.id)
  /\ srv' = [srv EXCEPT ![r.id] = "deleted"]
  /\ scrapeJobs' = FilterJob(scrapeJobs, r.id)
  /\ currentJob' = IF r.cur = r.id THEN <<>> ELSE currentJob
  /\ toast' = "Job deleted successfully"
  /\ deleteReqs' = deleteReqs \ {r}
  /\ alert' = ""
  /\ UNCHANGED << formData, loading, loops, fetches, createReq, exportVars,
                  tableVars, cap >>

\* deleteJob after its await, the request having failed.
DeleteFail(r) ==
  /\ toast' = "Failed to delete job"
  /\ deleteReqs' = deleteReqs \ {r}
  /\ alert' = ""
  /\ UNCHANGED << formData, scrapeJobs, currentJob, loading, loops, fetches,
                  createReq, srv, exportVars, tableVars, cap >>

Rows == 1..Min(RecentShown, Len(scrapeJobs))

-----------------------------------------------------------------------------
(* ExportButtons.                                                          *)

Formats == {"csv", "json", "pdf", "excel"}

\* Mutant of Filename: the extension is the name of the format.
FilenameByFormat(format) == "scraped_data." \o format

\* The filename handleExport's switch gives a format.
Filename(format) ==
  CASE format = "csv" -> "scraped_data.csv"
    [] format = "json" -> "scraped_data.json"
    [] format = "pdf" -> "scraped_data.pdf"
    [] format = "excel" -> "scraped_data.xlsx"

\* format.toUpperCase()
Upper(format) ==
  CASE format = "csv" -> "CSV"
    [] format = "json" -> "JSON"
    [] format = "pdf" -> "PDF"
    [] format = "excel" -> "EXCEL"

\* The button of a format is disabled while exporting === format.
ExportDisabled(format) == exporting = format

\* handleExport(format) up to its await: a click on an enabled button.
HandleExport(format) ==
  /\ ~ExportDisabled(format)
  /\ Len(transfers) < MaxTransfers
  /\ exporting' = format
  /\ transfers' = Append(transfers, [jobId |-> exJobId, format |-> format])
  /\ download' = ""
  /\ toast' = "" /\ alert' = ""
  /\ UNCHANGED << formData, dashVars, exJobId, tableVars, cap >>

\* handleExport after its await, the request having succeeded.
ExportOk(i) ==
  /\ download' = Filename(transfers[i].format)
  /\ toast' = "Data exported as " \o Upper(transfers[i].format)
  /\ exporting' = ""
  /\ transfers' = RemoveAt(transfers, i)
  /\ alert' = ""
  /\ UNCHANGED << formData, dashVars, exJobId, tableVars, cap >>

\* Mutant of ExportFail: the marker is reset on success only.
ExportFailKeepsMarker(i) ==
  /\ download' = ""
  /\ toast' = "Failed to export as " \o Upper(transfers[i].format)
  /\ exporting' = exporting
  /\ transfers' = RemoveAt(transfers, i)
  /\ alert' = ""
  /\ UNCHANGED << formData, dashVars, exJobId, tableVars, cap >>

\* handleExport after its await, the request having failed.
ExportFail(i) ==
  /\ download' = ""
  /\ toast' = "Failed to export as " \o Upper(transfers[i].format)
  /\ exporting' = ""
  /\ transfers' = RemoveAt(transfers, i)
  /\ alert' = ""
  /\ UNCHANGED << formData, dashVars, exJobId, tableVars, cap >>

\* <ExportButtons jobId={currentJob.id} /> rendered for another job.
ExportJobId(id) ==
  /\ id # exJobId
  /\ exJobId' = id
  /\ download' = ""
  /\ toast' = "" /\ alert' = ""
  /\ UNCHANGED << formData, dashVars, exporting, transfers, tableVars, cap >>

-----------------------------------------------------------------------------
(* ResultsTable.                                                           *)

\* The values the || operator takes for false.
Falsy(v) == v \in {Str(""), Num("0")}

\* values[i] || ''   with i counted from 0; values[i] is undefined past
\* the end of the array.
ElementOr(values, i) ==
  IF i < Len(values) /\ ~Falsy(values[i + 1]) THEN values[i + 1] ELSE Str("")

\* The array index a key stands for when it is the canonical decimal form
\* of one, -1 for every other key.
KeyIndex(key) == CASE key = "1" -> 1 [] key = "2" -> 2 [] OTHER -> -1

RECURSIVE SortByIndex(_)
SortByIndex(es) ==
  IF es = <<>> THEN <<>>
  ELSE LET k == CHOOSE k \in 1..Len(es) :
                  \A m \in 1..Len(es) :
                    KeyIndex(es[k].key) <= KeyIndex(es[m].key)
       IN << es[k] >> \o SortByIndex(RemoveAt(es, k))

\* The own properties of an object as Object.entries, Object.keys and a
\* rest pattern go through them: the keys that are array indices first, in
\* ascending order, then the other keys in the order they were added.
OwnEntries(m) ==
  SortByIndex(SelectSeq(m, LAMBDA e : KeyIndex(e.key) >= 0))
    \o SelectSeq(m, LAMBDA e : KeyIndex(e.key) < 0)

\* const { _metadata, ...scrapedData } = data
ScrapedData(m) == SelectSeq(OwnEntries(m), LAMBDA e : e.key # "_metadata")

\* Math.max(...lengths).  With no argument it is -Infinity, which like -1
\* is below every index and every length.
RECURSIVE MathMax(_)
MathMax(lengths) ==
  IF lengths = <<>> THEN -1
  ELSE LET rest == MathMax(Tail(lengths))
       IN IF Head(lengths) > rest THEN Head(lengths) ELSE rest

\* Mutant of TableData: the loop over the rows runs once too often.
TableDataExtraRow(d) ==
  IF d = <<>> THEN <<>>
  ELSE LET scrapedData == ScrapedData(d[1])
           maxLength ==
             MathMax([e \in 1..Len(scrapedData) |->
                        IF scrapedData[e].arr THEN Len(scrapedData[e].vals)
                                              ELSE 1])
       IN IF maxLength + 1 <= 0 THEN <<>>
          ELSE [r \in 1..(maxLength + 1) |->
                  [e \in 1..Len(scrapedData) |->
                     [key |-> scrapedData[e].key,
                      value |->
                        IF scrapedData[e].arr
                          THEN ElementOr(scrapedData[e].vals, r - 1)
                          ELSE IF r - 1 = 0 THEN scrapedData[e].vals[1]
                                            ELSE Str("")]]]

\* tableData: the rows of a data prop; a row is the sequence of its
\* entries in insertion order.  Row r of the model is the row of i = r - 1.
TableData(d) ==
  IF d = <<>> THEN <<>>
  ELSE LET scrapedData == ScrapedData(d[1])
           maxLength ==
             MathMax([e \in 1..Len(scrapedData) |->
                        IF scrapedData[e].arr THEN Len(scrapedData[e].vals)
                                              ELSE 1])
       IN IF maxLength <= 0 THEN <<>>
          ELSE [r \in 1..maxLength |->
                  [e \in 1..Len(scrapedData) |->
                     [key |-> scrapedData[e].key,
                      value |->
                        IF scrapedData[e].arr
                          THEN ElementOr(scrapedData[e].vals, r - 1)
                          ELSE IF r - 1 = 0 THEN scrapedData[e].vals[1]
                                            ELSE Str("")]]]

\* Mutant of Shown: the rows are tested before the keys.
ShownRowsFirst(d) ==
  IF Len(TableData(d)) = 0
    THEN "No data found with the specified selectors"
  ELSE IF d = <<>> \/ Len(d[1]) = 0 THEN "No data available"
  ELSE "table"

\* What ResultsTable returns: one of its two messages, or the table.
Shown(d) ==
  IF d = <<>> \/ Len(d[1]) = 0 THEN "No data available"
  ELSE IF Len(TableData(d)) = 0
    THEN "No data found with the specified selectors"
  ELSE "table"

\* The data prop of the ResultsTable the Dashboard renders for a
\* selection: the results section is rendered for a completed selection
\* with result data, and for no other (<<>>).
DisplayedData(selection) ==
  IF /\ selection # <<>>
     /\ selection[1].status = "completed"
     /\ selection[1].result_data # <<>>
    THEN selection[1].result_data
    ELSE <<>>

\* The data props explored: null; every mapping of the keys ResultKeys,
\* in every insertion order, to a scalar or a sequence of up to MaxLen
\* scalars; and every mapping of those keys and the keys IndexKeys, in every
\* insertion order, to a one-element sequence.
ResultKeys == {"title", "note", "_metadata"}
IndexKeys == {"1", "2"}
Scalars == {Str("A"), Str("B"), Str("x"), Str(""), Num("0")}

FieldValues ==
  {[arr |-> FALSE, vals |-> << v >>] : v \in Scalars}
    \cup {[arr |-> TRUE, vals |-> vs] :
            vs \in UNION {[1..n -> Scalars] : n \in 0..MaxLen}}

KeyOrders(keys) ==
  {ks \in UNION {[1..n -> keys] : n \in 0..Cardinality(keys)} :
     \A i, j \in 1..Len(ks) : i # j => ks[i] # ks[j]}

EntryOf(k, fv) ==
  IF k = "_metadata"
    THEN [key |-> k, arr |-> FALSE, vals |-> << Str("metadata") >>]
    ELSE [key |-> k, arr |-> fv[k].arr, vals |-> fv[k].vals]

\* The mapping with the keys ks, in that order, and the values fv.
ResultMapping(ks, fv) == [i \in 1..Len(ks) |-> EntryOf(ks[i], fv)]

\* ResultsTable({ data }): one render.
ResultsTable ==
  /\ shown = ""
  /\ tableData' = TableData(data)
  /\ shown' = Shown(data)
  /\ toast' = "" /\ alert' = ""
  /\ UNCHANGED << formData, dashVars, exportVars, data, cap >>

-----------------------------------------------------------------------------
Init ==
  /\ formData = InitialForm
  /\ alert = ""
  /\ scrapeJobs = <<>>
  /\ currentJob = <<>>
  /\ loading = FALSE
  /\ loops = <<>>
  /\ fetches = <<>>
  /\ createReq = <<>>
  /\ deleteReqs = {}
  /\ toast = ""
  /\ srv = [id \in JobIds |-> "absent"]
  /\ exporting = ""
  /\ exJobId = 1
  /\ transfers = <<>>
  /\ download = ""
  /\ cap = [jobs |-> MaxJobs, ticks |-> MaxTicks]
  /\ data = <<>>
  /\ tableData = <<>>
  /\ shown = ""

InitTimed ==
  /\ Init!1 /\ Init!2 /\ Init!3 /\ Init!4 /\ Init!5 /\ Init!6 /\ Init!7
  /\ Init!8 /\ Init!9 /\ Init!10 /\ Init!11 /\ Init!12 /\ Init!13
  /\ Init!14 /\ Init!15
  /\ cap = [jobs |-> TimedJobs, ticks |-> TimedTicks]
  /\ Init!17 /\ Init!18 /\ Init!19

\* The steps of Next, each over every row, loop, request or id it applies to.
ServerStep     == \E id \in JobIds : ServerProgress(id)
TickStep       == \E l \in 1..Len(loops) : Tick(l)
PollOkStep     == \E i \in 1..Len(fetches) : PollOk(i)
PollFailStep   == \E i \in 1..Len(fetches) : PollFail(i)
TimeoutStep    == \E l \in 1..Len(loops) : Timeout(l)
ViewJobStep    == \E k \in Rows : ViewJob(k)
DeleteJobStep  == \E k \in Rows : DeleteJob(k)
DeleteOkStep   == \E r \in deleteReqs : DeleteOk(r)
DeleteFailStep == \E r \in deleteReqs : DeleteFail(r)

Next ==
  \/ HandleChangeUrl
  \/ HandleSubmit
  \/ CreateOk
  \/ CreateFail
  \/ ServerStep
  \/ TickStep
  \/ PollOkStep
  \/ PollFailStep
  \/ TimeoutStep
  \/ ViewJobStep
  \/ DeleteJobStep
  \/ DeleteOkStep
  \/ DeleteFailStep

Spec == Init /\ [][Next]_vars

SpecTimed == InitTimed /\ [][Next]_vars

SelectorFieldStep ==
  \E index \in 0..(Len(formData.selectors) - 1), value \in FieldNames :
    HandleSelectorChange(index, "field", value)
SelectorTextStep ==
  \E index \in 0..(Len(formData.selectors) - 1), value \in SelectorTexts :
    HandleSelectorChange(index, "selector", value)
RemoveSelectorStep ==
  \E index \in 0..(Len(formData.selectors) - 1) : RemoveSelector(index)

NextForm ==
  \/ HandleChange
  \/ SelectorFieldStep
  \/ SelectorTextStep
  \/ AddSelector
  \/ RemoveSelectorStep
  \/ HandleSubmit
  \/ CreateOk
  \/ CreateFail

SpecForm == Init /\ [][NextForm]_vars

HandleExportStep == \E format \in Formats : HandleExport(format)
ExportOkStep     == \E i \in 1..Len(transfers) : ExportOk(i)
ExportFailStep   == \E i \in 1..Len(transfers) : ExportFail(i)
ExportJobIdStep  == \E id \in 1..MaxJobs : ExportJobId(id)

NextExport ==
  \/ HandleExportStep
  \/ ExportOkStep
  \/ ExportFailStep
  \/ ExportJobIdStep

SpecExport == Init /\ [][NextExport]_vars

InitTable ==
  /\ Init!1 /\ Init!2 /\ Init!3 /\ Init!4 /\ Init!5 /\ Init!6 /\ Init!7
  /\ Init!8 /\ Init!9 /\ Init!10 /\ Init!11 /\ Init!12 /\ Init!13
  /\ Init!14 /\ Init!15 /\ Init!16
  /\ \/ data = <<>>
     \/ \E ks \in KeyOrders(ResultKeys) :
          \E fv \in [ResultKeys \ {"_metadata"} -> FieldValues] :
            data = << ResultMapping(ks, fv) >>
     \/ \E ks \in KeyOrders(ResultKeys \cup IndexKeys) :
          data = << ResultMapping(ks,
                      [k \in ResultKeys \cup IndexKeys |->
                         [arr |-> TRUE, vals |-> << Str("A") >>]]) >>
  /\ tableData = <<>>
  /\ shown = ""

NextTable == ResultsTable

SpecTable == InitTable /\ [][NextTable]_vars

-----------------------------------------------------------------------------
(* Steps of the polling loops, as the properties below name them.          *)

\* The continuation of status request i runs in this step.
Delivered(i) == i \in 1..Len(fetches) /\ fetches' = RemoveAt(fetches, i)

\* Loop l sends a status request in this step.
Issued(l) ==
  /\ Len(fetches') = Len(fetches) + 1
  /\ fetches'[Len(fetches')].loop = l

\* The position of job id in a collection (0 if absent).
PosOf(jobs, id) ==
  IF \E k \in 1..Len(jobs) : jobs[k].id = id
    THEN CHOOSE k \in 1..Len(jobs) : jobs[k].id = id
    ELSE 0

Ids(jobs) == [k \in 1..Len(jobs) |-> jobs[k].id]

-----------------------------------------------------------------------------
(* C1: once the collection holds completed or failed for a job id, no      *)
(* later step changes the status of the entry with that id.                *)
C1_TerminalStatusKept ==
  [][\A k \in 1..Len(scrapeJobs) :
       Terminal(scrapeJobs[k].status) =>
         \A m \in 1..Len(scrapeJobs') :
           scrapeJobs'[m].id = scrapeJobs[k].id =>
             scrapeJobs'[m].status = scrapeJobs[k].status]_vars

(* C2: at every moment at most one status request of a job id awaits its   *)
(* response.                                                               *)
C2_OneFetchOutstanding ==
  \A id \in JobIds :
    Cardinality({i \in 1..Len(fetches) : loops[fetches[i].loop].id = id}) <= 1

(* C3: the response to a status request whose loop has stopped (its        *)
(* interval cleared by a terminal status, a failure or the timeout) is     *)
(* discarded: it changes neither the collection nor the selection.         *)
C3_StaleResponseDiscarded ==
  [][\A i \in 1..Len(fetches) :
       (Delivered(i) /\ ~loops[fetches[i].loop].active) =>
         (scrapeJobs' = scrapeJobs /\ currentJob' = currentJob)]_vars

(* C4: at every moment at most one export transfer awaits its response     *)
(* for a pair (jobId, format).                                             *)
C4_ExportSingleFlight ==
  \A id \in 1..MaxJobs, format \in Formats :
    Cardinality({i \in 1..Len(transfers) :
                   transfers[i] = [jobId |-> id, format |-> format]}) <= 1

-----------------------------------------------------------------------------
(* Once a loop's interval is cleared the loop sends nothing more and stays *)
(* cleared, and no other loop polls the same job id.                       *)
StoppedLoopsStaySilent ==
  \A l \in 1..Len(loops) :
    /\ ~loops[l].active => (~Issued(l) /\ ~loops'[l].active)
    /\ \A m \in 1..Len(loops) : m # l => loops[m].id # loops[l].id

(* C5: every status request of a loop is sent while its timeout timer is   *)
(* pending and no later than 300000 ms after registration; once the timer  *)
(* has fired the loop is stopped for good, whatever the requests return.   *)
C5_PollingStopsAtCeiling ==
  [][\A l \in 1..Len(loops) :
       /\ Issued(l) =>
            /\ loops[l].timer
            /\ loops'[l].ticks * PollIntervalMs <= PollTimeoutMs
       /\ ~loops[l].timer =>
            (~loops[l].active /\ ~loops'[l].active /\ ~loops'[l].timer)]_vars

\* A loop whose every request found the job pending was stopped by its
\* timeout timer 300000 ms after registration.
C5_Witness ==
  \E l \in 1..Len(loops) :
    /\ ~loops[l].timer /\ ~loops[l].active
    /\ loops[l].ticks * PollIntervalMs = PollTimeoutMs
    /\ srv[loops[l].id] = "pending"
    /\ fetches = <<>>
    /\ PosOf(scrapeJobs, loops[l].id) # 0
    /\ scrapeJobs[PosOf(scrapeJobs, loops[l].id)].status = "pending"

(* C6: when a status request succeeds with completed or failed, the entry  *)
(* with that job id becomes the returned entity, the interval is cleared,  *)
(* and no status request for that job is sent afterwards.                  *)
C6_TerminalResponseStopsPolling ==
  [][/\ \A i \in 1..Len(fetches) :
          LET l == fetches[i].loop
              job == fetches[i].resp.data
          IN (Delivered(i) /\ fetches[i].resp.ok /\ Terminal(job.status)) =>
               /\ Len(scrapeJobs') = Len(scrapeJobs)
               /\ \A k \in 1..Len(scrapeJobs) :
                    scrapeJobs[k].id = loops[l].id => scrapeJobs'[k] = job
               /\ ~loops'[l].active
     /\ StoppedLoopsStaySilent]_vars

\* The latest step handled a completed response: the entry holds the
\* entity with its result and the loop is stopped before its timeout.
C6_Witness ==
  /\ toast = "Scraping completed!"
  /\ \E l \in 1..Len(loops) :
       /\ ~loops[l].active /\ loops[l].timer
       /\ PosOf(scrapeJobs, loops[l].id) # 0
       /\ scrapeJobs[PosOf(scrapeJobs, loops[l].id)] =
            Job(loops[l].id, "completed", << HelloResult >>, "")

(* C7: when a status request fails, the interval is cleared with no retry, *)
(* the collection is left as it was, the error toast is raised, and no     *)
(* status request for that job is sent afterwards.                         *)
C7_FailedFetchStopsPolling ==
  [][/\ \A i \in 1..Len(fetches) :
          (Delivered(i) /\ ~fetches[i].resp.ok) =>
            /\ scrapeJobs' = scrapeJobs
            /\ currentJob' = currentJob
            /\ ~loops'[fetches[i].loop].active
            /\ toast' = "Error checking job status"
     /\ StoppedLoopsStaySilent]_vars

\* The latest step handled a failed request of a job the service still
\* runs: its loop is stopped and the entry is as the last poll left it.
C7_Witness ==
  /\ toast = "Error checking job status"
  /\ \E l \in 1..Len(loops) :
       /\ ~loops[l].active /\ loops[l].timer /\ loops[l].ticks = 2
       /\ srv[loops[l].id] = "running"
       /\ fetches = <<>>
       /\ PosOf(scrapeJobs, loops[l].id) # 0
       /\ scrapeJobs[PosOf(scrapeJobs, loops[l].id)].status = "running"

-----------------------------------------------------------------------------
-----------------------------------------------------------------------------
\* What a step of a polling loop leaves alone besides the collection and
\* the selection: the other loops, their requests, and the other handlers'
\* state.
LoopStepFrame(l) ==
  /\ \A m \in 1..Len(loops) : m # l => loops'[m] = loops[m]
  /\ Len(loops') = Len(loops)
  /\ loops'[l].id = loops[l].id
  /\ UNCHANGED << formData, loading, createReq, deleteReqs, srv,
                  exportVars >>

\* What the continuation of request i does to the collection: the entries
\* of other ids, the length and the order of ids are kept.
OwnEntryOnly(i) ==
  LET id == loops[fetches[i].loop].id
  IN /\ Len(scrapeJobs') = Len(scrapeJobs)
     /\ Ids(scrapeJobs') = Ids(scrapeJobs)
     /\ \A k \in 1..Len(scrapeJobs) :
          scrapeJobs[k].id # id => scrapeJobs'[k] = scrapeJobs[k]
     /\ ~fetches[i].resp.ok =>
          (scrapeJobs' = scrapeJobs /\ toast' = "Error checking job status")

(* C9 as stated: a tick of job A's loop writes only the entry of A, keeps   *)
(* every other entry, the length and the order, touches no other shared    *)
(* state (the selection keeps pointing at the job it pointed at) and       *)
(* leaves the other loops alone; a failed request is caught and reported.  *)
C9_TickTouchesOnlyOwnEntry ==
  [][/\ \A l \in 1..Len(loops) :
          Issued(l) =>
            (LoopStepFrame(l) /\ UNCHANGED << scrapeJobs, currentJob >>)
     /\ \A i \in 1..Len(fetches) :
          Delivered(i) =>
            /\ LoopStepFrame(fetches[i].loop)
            /\ OwnEntryOnly(i)
            /\ IdOf(currentJob') = IdOf(currentJob)]_vars

(* C9 as amended: the same, except that the continuation of a request      *)
(* that found the job completed also makes the returned job the current    *)
(* selection.                                                              *)
C9_TickFrameWithSelection ==
  [][/\ \A l \in 1..Len(loops) :
          Issued(l) =>
            (LoopStepFrame(l) /\ UNCHANGED << scrapeJobs, currentJob >>)
     /\ \A i \in 1..Len(fetches) :
          Delivered(i) =>
            /\ LoopStepFrame(fetches[i].loop)
            /\ OwnEntryOnly(i)
            /\ currentJob' =
                 IF fetches[i].resp.ok
                    /\ fetches[i].resp.data.status = "completed"
                   THEN << fetches[i].resp.data >>
                   ELSE currentJob]_vars

\* The latest step handled the completed response of job 1 while job 2,
\* the job selected before, is still polled: the entry of job 2 and its
\* loop are as they were, and job 1 is now the selection.
C9_Witness ==
  /\ toast = "Scraping completed!"
  /\ Len(scrapeJobs) = 2 /\ Len(loops) = 2
  /\ scrapeJobs[2].id = 1 /\ scrapeJobs[2].status = "completed"
  /\ scrapeJobs[1].id = 2 /\ scrapeJobs[1].status = "running"
  /\ ~loops[1].active /\ loops[2].active /\ loops[2].ticks = 1
  /\ currentJob = << scrapeJobs[2] >>

-----------------------------------------------------------------------------
\* A pair of the selector list with a field name and a selector text.
ValidPair(sel) == sel.field # "" /\ sel.selector # ""

\* handleSubmit runs in this step: it raises an alert, or sends the request.
Submitted == alert' # "" \/ (createReq = <<>> /\ createReq' # <<>>)

(* C10: handleSubmit checks in a fixed order, with distinct outcomes: an    *)
(* empty url first, then an empty selector list, then a list with no pair  *)
(* of non-empty field and selector; a rejected submit sends no             *)
(* job-creation request, and only a form passing all three sends one.      *)
C10_ValidationOrder ==
  [][Submitted =>
       LET url == formData.url
           sels == formData.selectors
           someValid == \E k \in 1..Len(sels) : ValidPair(sels[k])
       IN /\ url = "" => alert' = "Please enter a URL"
          /\ (url # "" /\ Len(sels) = 0) =>
               alert' = "Please add at least one selector"
          /\ (url # "" /\ Len(sels) # 0 /\ ~someValid) =>
               alert' = "Please add valid selectors"
          /\ (url # "" /\ someValid) => (alert' = "" /\ createReq' # <<>>)
          /\ alert' # "" =>
               UNCHANGED << createReq, loading, scrapeJobs, currentJob,
                            loops, srv >>]_vars

\* A submit with an empty url and no valid pair was rejected for the url,
\* and nothing was sent.
C10_Witness ==
  /\ alert = "Please enter a URL"
  /\ formData.url = ""
  /\ \A k \in 1..Len(formData.selectors) : ~ValidPair(formData.selectors[k])
  /\ createReq = <<>> /\ ~loading

-----------------------------------------------------------------------------
(* C11 as stated: a submit of a selector list in which every pair has an   *)
(* empty field or an empty selector raises the NoValidSelectors alert and  *)
(* leaves the collection as it was.                                        *)
C11_NoValidPairRejected ==
  [][(Submitted /\ \A k \in 1..Len(formData.selectors) :
                     ~ValidPair(formData.selectors[k])) =>
       /\ alert' = "Please add valid selectors"
       /\ scrapeJobs' = scrapeJobs]_vars

(* C11 as amended: the same for a submit with a non-empty url and a        *)
(* non-empty selector list; nothing is sent either.                        *)
C11_NoValidPairAfterUrl ==
  [][(/\ Submitted
      /\ formData.url # ""
      /\ Len(formData.selectors) # 0
      /\ \A k \in 1..Len(formData.selectors) :
            ~ValidPair(formData.selectors[k])) =>
       /\ alert' = "Please add valid selectors"
       /\ UNCHANGED << scrapeJobs, currentJob, createReq, loading, loops,
                       srv >>]_vars

\* A submit with a url and two pairs, one without its field and one
\* without its selector, was rejected; the collection holds the job of an
\* earlier submit.
C11_Witness ==
  /\ alert = "Please add valid selectors"
  /\ formData.url # ""
  /\ Len(formData.selectors) = 2
  /\ formData.selectors[1].field = "" /\ formData.selectors[1].selector # ""
  /\ formData.selectors[2].field # "" /\ formData.selectors[2].selector = ""
  /\ Len(scrapeJobs) = 1
  /\ createReq = <<>> /\ ~loading

-----------------------------------------------------------------------------
\* The continuation of the job-creation request runs in this step; the
\* request succeeded when the service has created a job.
CreateAnswered == createReq # <<>> /\ createReq' = <<>>
CreateSucceeded == CreateAnswered /\ srv' # srv
CreateFailed == CreateAnswered /\ srv' = srv

\* The id of the job the service creates in this step.
CreatedId == CHOOSE id \in JobIds : srv[id] = "absent" /\ srv'[id] # "absent"

(* C12: a submit with a non-empty url and at least one pair of non-empty   *)
(* field and selector sends the job-creation request; when the request     *)
(* succeeds the returned job is at position 0 of the collection with the   *)
(* earlier entries behind it in their order, is the current selection,     *)
(* and a polling loop for its id is started.                               *)
C12_CreatedJobPrepended ==
  [][/\ (/\ Submitted
          /\ formData.url # ""
          /\ \E k \in 1..Len(formData.selectors) :
                ValidPair(formData.selectors[k])) =>
            /\ alert' = ""
            /\ createReq' # <<>>
            /\ createReq'[1].url = formData.url
            /\ createReq'[1].selectors # <<>>
     /\ CreateSucceeded =>
            /\ Len(scrapeJobs') = Len(scrapeJobs) + 1
            /\ scrapeJobs'[1].id = CreatedId
            /\ SubSeq(scrapeJobs', 2, Len(scrapeJobs')) = scrapeJobs
            /\ currentJob' = << scrapeJobs'[1] >>
            /\ Len(loops') = Len(loops) + 1
            /\ SubSeq(loops', 1, Len(loops)) = loops
            /\ loops'[Len(loops')] =
                 [id |-> CreatedId, ticks |-> 0, active |-> TRUE,
                  timer |-> TRUE]]_vars

\* The second job was just created while the first is running: it is in
\* front of the first, it is the selection, and its loop has not fired yet.
C12_Witness ==
  /\ toast = "Scraping job started!"
  /\ Len(scrapeJobs) = 2
  /\ scrapeJobs[1].id = 2 /\ scrapeJobs[1].status = "pending"
  /\ scrapeJobs[2].id = 1 /\ scrapeJobs[2].status = "running"
  /\ currentJob = << scrapeJobs[1] >>
  /\ Len(loops) = 2
  /\ loops[2].id = 2 /\ loops[2].active /\ loops[2].ticks = 0

(* C13: when the job-creation request fails, the collection and the        *)
(* selection are left as they were and no polling loop is started; the     *)
(* submit itself changes none of them either, so only a successful         *)
(* creation does.                                                          *)
C13_FailedCreateChangesNothing ==
  [][(Submitted \/ CreateFailed) =>
       UNCHANGED << scrapeJobs, currentJob, loops, fetches >>]_vars

\* The latest step handled a failed creation while an earlier job is held
\* and selected: the job is still there, still selected, with its one loop.
C13_Witness ==
  /\ toast = "Failed to start scraping job"
  /\ Len(scrapeJobs) = 1
  /\ currentJob = << scrapeJobs[1] >>
  /\ Len(loops) = 1
  /\ ~loading /\ createReq = <<>>

-----------------------------------------------------------------------------
\* The fields of a result mapping, its metadata entry left out.
FieldsOf(m) == SelectSeq(m, LAMBDA e : e.key # "_metadata")

\* The width the specification gives a sequence of fields.
WidthOf(fields) ==
  IF fields = <<>> THEN 0
  ELSE LET ns == {IF fields[e].arr THEN Len(fields[e].vals) ELSE 1 :
                    e \in 1..Len(fields)}
       IN CHOOSE n \in ns : \A k \in ns : k <= n

(* C14: the rows of a rendered mapping are those of the stated algorithm:  *)
(* as many rows as the longest sequence (1 for a scalar, 0 with no field   *)
(* left once the metadata entry is excluded); in each row a sequence field *)
(* holds its element of that index if present and the empty string         *)
(* otherwise, a scalar field the scalar in the first row and the empty     *)
(* string in the later ones.                                               *)
C14_NormalizeAsStated ==
  (shown # "" /\ data # <<>>) =>
    LET fields == FieldsOf(data[1])
    IN /\ Len(tableData) = WidthOf(fields)
       /\ \A r \in 1..Len(tableData) :
            /\ Len(tableData[r]) = Len(fields)
            /\ \A e \in 1..Len(fields) :
                 \E c \in 1..Len(tableData[r]) :
                   /\ tableData[r][c].key = fields[e].key
                   /\ tableData[r][c].value =
                        IF fields[e].arr
                          THEN IF r <= Len(fields[e].vals)
                                 THEN fields[e].vals[r] ELSE Str("")
                          ELSE IF r = 1 THEN fields[e].vals[1] ELSE Str("")

(* C15: a mapping with no entry is reported as "No data available", a      *)
(* mapping whose fields are all empty sequences as "No data found with the *)
(* specified selectors"; both have no rows, and every render returns one   *)
(* of the two messages or a table with at least one row.                   *)
C15_EmptyStatesDistinguished ==
  shown # "" =>
    /\ (data # <<>> /\ data[1] = <<>>) =>
         (shown = "No data available" /\ tableData = <<>>)
    /\ (/\ data # <<>>
        /\ FieldsOf(data[1]) # <<>>
        /\ \A e \in 1..Len(data[1]) :
              data[1][e].key # "_metadata" =>
                (data[1][e].arr /\ data[1][e].vals = <<>>)) =>
         (/\ shown = "No data found with the specified selectors"
          /\ tableData = <<>>)
    /\ shown \in {"No data available",
                  "No data found with the specified selectors", "table"}
    /\ shown = "table" <=> tableData # <<>>

\* A mapping of two fields, both empty sequences, was rendered as the
\* message about the selectors.
C15_Witness ==
  /\ shown = "No data found with the specified selectors"
  /\ data # <<>>
  /\ Len(data[1]) = 2
  /\ \A e \in 1..2 : data[1][e].arr /\ data[1][e].vals = <<>>
  /\ tableData = <<>>

-----------------------------------------------------------------------------
\* The continuation of export request i runs in this step.
ExportAnswered(i) ==
  i \in 1..Len(transfers) /\ transfers' = RemoveAt(transfers, i)

\* The continuation of export request i reports success in this step.
ExportSucceeded(i) ==
  /\ ExportAnswered(i)
  /\ toast' = "Data exported as " \o Upper(transfers[i].format)

(* C16: when an export request succeeds, one download is triggered, named  *)
(* scraped_data.csv, .json, .pdf or .xlsx after the requested format, and  *)
(* the in-flight marker is released: the button of the format is enabled.  *)
C16_ExportSuccessDownloads ==
  [][\A i \in 1..Len(transfers) :
       ExportSucceeded(i) =>
         /\ download' =
              (CASE transfers[i].format = "csv" -> "scraped_data.csv"
                 [] transfers[i].format = "json" -> "scraped_data.json"
                 [] transfers[i].format = "pdf" -> "scraped_data.pdf"
                 [] transfers[i].format = "excel" -> "scraped_data.xlsx")
         /\ exporting' = ""
         /\ exporting' # transfers[i].format
         /\ Len(transfers') = Len(transfers) - 1]_vars

\* The latest step handled a successful Excel export while another export
\* is still awaited: the download is the .xlsx file and the marker is free.
C16_Witness ==
  /\ toast = "Data exported as EXCEL"
  /\ download = "scraped_data.xlsx"
  /\ exporting = ""
  /\ Len(transfers) = 1 /\ transfers[1].format # "excel"

(* C17: when an export request fails, no download is triggered, the        *)
(* in-flight marker is released so that the same export can be requested   *)
(* again, the failure toast names the format, and no request is sent in    *)
(* its place.                                                              *)
C17_ExportFailureReleases ==
  [][\A i \in 1..Len(transfers) :
       (ExportAnswered(i) /\ ~ExportSucceeded(i)) =>
         /\ download' = ""
         /\ toast' = "Failed to export as " \o Upper(transfers[i].format)
         /\ exporting' = ""
         /\ exporting' # transfers[i].format
         /\ Len(transfers') = Len(transfers) - 1]_vars

\* The latest step handled a failed PDF export, the only one requested:
\* nothing was downloaded, nothing is awaited and the marker is free.
C17_Witness ==
  /\ toast = "Failed to export as PDF"
  /\ download = ""
  /\ exporting = ""
  /\ transfers = <<>>

-----------------------------------------------------------------------------
\* The continuation of delete request r runs in this step; the request
\* succeeded when the service has deleted the job.
DeleteAnswered(r) == r \in deleteReqs /\ deleteReqs' = deleteReqs \ {r}
DeleteSucceeded(r) ==
  DeleteAnswered(r) /\ srv[r.id] # "deleted" /\ srv'[r.id] = "deleted"
DeleteFailed(r) == DeleteAnswered(r) /\ srv' = srv

(* C18: once the deletion of a job has succeeded, the job is not in the    *)
(* collection and is not the current selection, whatever view, submit and  *)
(* poll steps ran between the click and the response or run later; a       *)
(* deletion that fails leaves the collection and the selection alone.      *)
C18_DeletedJobGone ==
  /\ [](\A id \in JobIds :
          srv[id] = "deleted" =>
            (PosOf(scrapeJobs, id) = 0 /\ IdOf(currentJob) # id))
  /\ [][\A r \in deleteReqs :
          DeleteFailed(r) => UNCHANGED << scrapeJobs, currentJob >>]_vars

-----------------------------------------------------------------------------
\* The timeout timer of loop l fires in this step.
TimerFired(l) == loops[l].timer /\ ~loops'[l].timer

(* C19: when the timeout timer fires on a loop that was still polling, the *)
(* step leaves the collection as it was: the entry of the job keeps the    *)
(* status last observed and is not set to failed or to anything else.      *)
C19_TimeoutLeavesEntry ==
  [][\A l \in 1..Len(loops) :
       TimerFired(l) =>
         (scrapeJobs' = scrapeJobs /\ currentJob' = currentJob)]_vars

\* A loop was stopped at its ceiling with a request still awaited, while
\* the entry holds running, the status last observed.
C19_Witness ==
  \E l \in 1..Len(loops) :
    /\ ~loops[l].timer /\ ~loops[l].active
    /\ loops[l].ticks * PollIntervalMs = PollTimeoutMs
    /\ fetches # <<>>
    /\ PosOf(scrapeJobs, loops[l].id) # 0
    /\ scrapeJobs[PosOf(scrapeJobs, loops[l].id)].status = "running"

(* C20: the caller can unregister the loop of a job it gives up, which     *)
(* the caller does when it deletes the job: from that step on the loop of  *)
(* that job id does not tick; and stopping a loop that has already ended   *)
(* (the timeout timer firing after a terminal status or a failed request)  *)
(* changes nothing else and raises nothing.                                *)
C20_UnregistrationStopsTicking ==
  [][/\ \A r \in deleteReqs :
          DeleteSucceeded(r) =>
            \A l \in 1..Len(loops) :
              loops[l].id = r.id => ~loops'[l].active
     /\ \A l \in 1..Len(loops) :
          (TimerFired(l) /\ ~loops[l].active) =>
            /\ loops' = [loops EXCEPT ![l].timer = FALSE]
            /\ UNCHANGED << scrapeJobs, currentJob, fetches >>
            /\ toast' = "" /\ alert' = ""]_vars

-----------------------------------------------------------------------------
(* C21: when the response to a status request of a job created by a submit *)
(* reports completed with the result {title: ["Hello"]}, the entry of the  *)
(* job holds that result, the results section displays it, and its rows    *)
(* are the one row {title: "Hello"}.                                       *)
C21_CompletedResultDisplayed ==
  [][\A i \in 1..Len(fetches) :
       LET job == fetches[i].resp.data
       IN (/\ Delivered(i)
           /\ fetches[i].resp.ok
           /\ job.status = "completed"
           /\ job.result_data = << HelloResult >>) =>
            /\ \A k \in 1..Len(scrapeJobs) :
                 scrapeJobs[k].id = job.id =>
                   scrapeJobs'[k].result_data = << HelloResult >>
            /\ DisplayedData(currentJob') = << HelloResult >>
            /\ IdOf(currentJob') = job.id
            /\ TableData(DisplayedData(currentJob')) =
                 << << [key |-> "title", value |-> Str("Hello")] >> >>]_vars

\* The one job, created as pending, was just seen completed: its entry
\* and the selection hold the result, displayed as one row.
C21_Witness ==
  /\ toast = "Scraping completed!"
  /\ Len(scrapeJobs) = 1
  /\ scrapeJobs[1] = Job(1, "completed", << HelloResult >>, "")
  /\ currentJob = << scrapeJobs[1] >>
  /\ Len(TableData(DisplayedData(currentJob))) = 1
  /\ loops[1].ticks = 2

-----------------------------------------------------------------------------
\* The last pair of a selector list with the field name f and a selector.
LastValid(sels, f) ==
  CHOOSE k \in 1..Len(sels) :
    /\ ValidPair(sels[k]) /\ sels[k].field = f
    /\ \A m \in (k + 1)..Len(sels) :
         ~(ValidPair(sels[m]) /\ sels[m].field = f)

(* C22: the selectors mapping of a job-creation request has one entry for  *)
(* each field name of a pair with a non-empty field and a non-empty        *)
(* selector, and no other entry; the entry of a field name holds the       *)
(* selector of the last such pair of the list with that name.              *)
C22_SelectorsLastWriteWins ==
  [][(Submitted /\ createReq' # <<>>) =>
       LET sels == formData.selectors
           obj == createReq'[1].selectors
       IN /\ \A k \in 1..Len(sels) :
               ValidPair(sels[k]) =>
                 \E e \in 1..Len(obj) : obj[e].field = sels[k].field
          /\ \A e \in 1..Len(obj) :
               /\ \E k \in 1..Len(sels) :
                    ValidPair(sels[k]) /\ sels[k].field = obj[e].field
               /\ obj[e].selector = sels[LastValid(sels, obj[e].field)].selector
               /\ \A d \in 1..Len(obj) :
                    obj[d].field = obj[e].field => d = e]_vars

\* A request was sent for a list of three rows: two pairs named title
\* with different selectors around a row without a field; the mapping
\* holds title with the selector of the third row.
C22_Witness ==
  /\ createReq # <<>>
  /\ Len(formData.selectors) = 3
  /\ formData.selectors[1] = [field |-> "title", selector |-> "h1, h2, h3"]
  /\ formData.selectors[2].field = ""
  /\ formData.selectors[3] = [field |-> "title", selector |-> "a[href]"]
  /\ createReq[1].selectors = << [field |-> "title", selector |-> "a[href]"] >>

-----------------------------------------------------------------------------
(* C23: the rows come in increasing index order (row r holds the elements  *)
(* of index r), and the fields of every row are in the order in which the  *)
(* fields of the input mapping were first seen, numeric-string field names *)
(* included.                                                               *)
C23_RowsKeepFieldOrder ==
  (shown # "" /\ data # <<>>) =>
    LET fields == FieldsOf(data[1])
    IN \A r \in 1..Len(tableData) :
         /\ [c \in 1..Len(tableData[r]) |-> tableData[r][c].key] =
              [e \in 1..Len(fields) |-> fields[e].key]
         /\ \A e \in 1..Len(fields) :
              (/\ fields[e].arr
               /\ r <= Len(fields[e].vals)
               /\ ~Falsy(fields[e].vals[r])) =>
                \E c \in 1..Len(tableData[r]) :
                  /\ tableData[r][c].key = fields[e].key
                  /\ tableData[r][c].value = fields[e].vals[r]

-----------------------------------------------------------------------------
(* C24: in every reachable state the current selection is empty or is a    *)
(* job whose id is in the collection; a deleted job is not and does not    *)
(* become the selection.                                                   *)
C24_SelectionInCollection ==
  currentJob = <<>> \/ PosOf(scrapeJobs, IdOf(currentJob)) # 0

(* C25: whenever the selection is a job whose id is in the collection,     *)
(* the status of the selection is the status of that entry; a failed       *)
(* status recorded by a poll is the status the selection shows.            *)
C25_SelectionStatusCurrent ==
  (currentJob # <<>> /\ PosOf(scrapeJobs, IdOf(currentJob)) # 0) =>
    currentJob[1].status =
      scrapeJobs[PosOf(scrapeJobs, IdOf(currentJob))].status

(* C26: a format is marked in flight exactly while a transfer of that      *)
(* format is outstanding: starting or finishing the export of one format   *)
(* never clears or overwrites the marker of another.                       *)
C26_ExportMarkersIndependent ==
  \A format \in Formats :
    ExportDisabled(format) <=>
      \E i \in 1..Len(transfers) : transfers[i].format = format

-----------------------------------------------------------------------------
(* C27: the step that sends a status request leaves the collection as it   *)
(* is, the step that handles its response keeps the sequence of ids of the *)
(* collection (no entry added, removed or moved), and a job that was       *)
(* deleted is never in the collection again.                               *)
C27_PollKeepsCollectionShape ==
  /\ [][/\ \A l \in 1..Len(loops) : Issued(l) => scrapeJobs' = scrapeJobs
        /\ \A i \in 1..Len(fetches) :
             Delivered(i) => Ids(scrapeJobs') = Ids(scrapeJobs)]_vars
  /\ [](\A id \in JobIds :
          srv[id] = "deleted" => PosOf(scrapeJobs, id) = 0)

\* The latest step handled a completed response for job 1, deleted while
\* the request was awaited: the collection still holds job 2 only.
C27_Witness ==
  /\ toast = "Scraping completed!"
  /\ srv[1] = "deleted"
  /\ Ids(scrapeJobs) = << 2 >>
  /\ IdOf(currentJob) = 1

(* C28: a loop sends at most 150 status requests, one per firing of its    *)
(* 2000 ms interval within the 300000 ms ceiling; none is sent in the step *)
(* that registers the loop, and the first is sent at the first firing,     *)
(* 2000 ms after registration.                                             *)
C28_AtMost150Fetches ==
  /\ [](\A l \in 1..Len(loops) : loops[l].ticks <= 150)
  /\ [][/\ CreateSucceeded => fetches' = fetches
        /\ \A l \in 1..Len(loops) :
             Issued(l) =>
               /\ loops'[l].ticks = loops[l].ticks + 1
               /\ loops'[l].ticks * PollIntervalMs >= 2000
               /\ loops'[l].ticks * PollIntervalMs <= 300000]_vars

\* A loop has sent its 150th request, at the ceiling, and its timeout
\* timer is about to fire.
C28_Witness ==
  \E l \in 1..Len(loops) :
    loops[l].ticks = 150 /\ loops[l].timer /\ loops[l].active

====
